---- MODULE Spec2Model ----
(***************************************************************************)
(* promptopia-mcp: the prompt repository (PromptsService), its template    *)
(* engine, the blob store under it (FileSystemService) and the tool facade *)
(* (ToolsHandler.callTool) with its error translation, the prompt handler  *)
(* (PromptsHandler) with its file watcher, the calls of the facade that    *)
(* are in flight together, the pure functions on their own, the listing    *)
(* over a directory other processes write to, and the start of the         *)
(* repository.                                                             *)
(*                                                                         *)
(* A JavaScript string is a sequence of tokens; a token is one character   *)
(* ("{", "}", " ") or an atomic run of characters that holds no brace and  *)
(* no blank ("a", "prompt-", "Prompt not found: ").  An object is a        *)
(* function from its own property names to their values; a property that   *)
(* is absent is not in the DOMAIN.                                         *)
(***************************************************************************)
EXTENDS Integers, Sequences, FiniteSets, TLC

VARIABLES
  files,    \* the prompts directory: file path -> JSON text
  clock,    \* what new Date() reads
  result,   \* the last call of the facade: tool, args, id, svc, out
  updated,  \* history: the ids updated with success since they were created
  notifier, \* PromptsHandler's watcher: its fields, its watch loops, what it sent
  inflight, \* the calls of the facade suspended at a storage step
  root      \* the prompts directory itself, and the mkdir of the constructor

vars == <<files, clock, result, updated, notifier, inflight, root>>

-----------------------------------------------------------------------------
(* Bounds of the model *)

\* the clock reads 1..MaxClock
MaxClock == 2

\* setupFileWatcher is called at most MaxStarts times
MaxStarts == 2

\* the prompts directory changes at most MaxEvents times under the watcher
MaxEvents == 3

\* the calls of the facade in flight together
MaxInflight == 2

\* the message lists handed to validateMessages hold at most MaxMessages
\* messages
MaxMessages == 2

-----------------------------------------------------------------------------
(* JavaScript strings *)

IsBlankChar(c) == c = " "

RECURSIVE TrimStart(_)
TrimStart(s) ==
  IF s # <<>> /\ IsBlankChar(Head(s)) THEN TrimStart(Tail(s)) ELSE s

RECURSIVE TrimEnd(_)
TrimEnd(s) ==
  IF s # <<>> /\ IsBlankChar(s[Len(s)]) THEN TrimEnd(SubSeq(s, 1, Len(s) - 1)) ELSE s

\* String.prototype.trim
Trim(s) == TrimEnd(TrimStart(s))

\* a string is truthy iff it is not empty
Truthy(s) == s # <<>>

\* String.prototype.slice(from, to) with 0-based from, and to counted from
\* the start when >= 0 and from the end when negative
Slice(s, from, to) ==
  LET e == IF to < 0 THEN Len(s) + to ELSE to
  IN  SubSeq(s, from + 1, e)

RECURSIVE Join(_, _)
\* Array.prototype.join
Join(list, sep) ==
  IF list = <<>> THEN <<>>
  ELSE IF Len(list) = 1 THEN list[1]
  ELSE list[1] \o sep \o Join(Tail(list), sep)

RECURSIVE Dedup(_, _)
\* [...new Set(list)]: first occurrences, in order
Dedup(list, seen) ==
  IF list = <<>> THEN <<>>
  ELSE IF Head(list) \in seen THEN Dedup(Tail(list), seen)
  ELSE <<Head(list)>> \o Dedup(Tail(list), seen \cup {Head(list)})

IsBrace(c) == c = "{" \/ c = "}"

RECURSIVE RunEnd(_, _)
\* the index of the last character of the maximal run of non-brace
\* characters that starts at i (i - 1 when the run is empty)
RunEnd(s, i) ==
  IF i <= Len(s) /\ ~IsBrace(s[i]) THEN RunEnd(s, i + 1) ELSE i - 1

\* /{{([^{}]+)}}/ anchored at i: the index of the match's last character,
\* or 0 when the pattern does not match at i
MatchEnd(s, i) ==
  IF i + 1 <= Len(s) /\ s[i] = "{" /\ s[i + 1] = "{"
  THEN LET e == RunEnd(s, i + 2)
       IN  IF e >= i + 2 /\ e + 2 <= Len(s) /\ s[e + 1] = "}" /\ s[e + 2] = "}"
           THEN e + 2
           ELSE 0
  ELSE 0

RECURSIVE Matches(_, _)
\* content.match(variableRegex): the matched substrings, left to right,
\* not overlapping
Matches(s, i) ==
  IF i > Len(s) THEN <<>>
  ELSE LET e == MatchEnd(s, i)
       IN  IF e = 0 THEN Matches(s, i + 1)
           ELSE <<SubSeq(s, i, e)>> \o Matches(s, e + 1)

-----------------------------------------------------------------------------
(* JavaScript objects *)

\* the properties every plain object inherits from Object.prototype
ObjectPrototypeKeys ==
  { <<"constructor">>, <<"toString">>, <<"valueOf">>, <<"hasOwnProperty">> }

\* `key in obj`: own properties and inherited ones
HasProperty(obj, key) == key \in DOMAIN obj \/ key \in ObjectPrototypeKeys

\* String(f) of a built-in function f named key
FunctionSource(key) ==
  <<"function", " ">> \o key \o <<"(", ")", " ", "{", " ", "[native", " ", "code]", " ", "}">>

\* an object spread {...base, ...over}: the later source wins
Spread(base, over) == over @@ base

\* JSON.stringify of an object: the set of its name/value members
JSONStringify(obj) == { <<k, obj[k]>> : k \in DOMAIN obj }

\* JSON.parse of such a text
JSONParse(text) ==
  [ k \in { m[1] : m \in text } |-> (CHOOSE m \in text : m[1] = k)[2] ]

-----------------------------------------------------------------------------
(* Errors: src/src/utils/mcp-error.ts and src/src/utils/error-handler.ts   *)
(* each declare their own classes; instanceof tells them apart             *)

NotFoundError(message) == [ cls |-> "mcp-error/NotFoundError", message |-> message ]

ValidationError(message) == [ cls |-> "mcp-error/ValidationError", message |-> message ]

\* a plain Error, and the TypeError the engine raises
PlainError(message) == [ cls |-> "Error", message |-> message ]

TypeError(message) == [ cls |-> "TypeError", message |-> message ]

McpError(code, message) == [ cls |-> "McpError", code |-> code, message |-> message ]

\* the message fragments of the program that contain 'not found'
NotFoundFragments == { "File not found: ", "Prompt not found: " }

\* error.message.includes('not found')
IncludesNotFound(message) == \E i \in 1..Len(message) : message[i] \in NotFoundFragments

\* what a call gives: a value, or a thrown error
Ok(value) == [ ok |-> TRUE, value |-> value ]

Throw(error) == [ ok |-> FALSE, error |-> error ]

-----------------------------------------------------------------------------
(* FileSystemService *)

\* path.join(dir, name)
PathJoin(dir, name) == dir \o <<"/">> \o name

\* a text JSON.parse accepts: every member is a name and a value
IsJSONText(text) == \A m \in text : Len(m) = 2

readJSONFile(fs, filePath) ==
  IF filePath \notin DOMAIN fs
  THEN Throw(NotFoundError(<<"File not found: ">> \o filePath))
  ELSE IF ~IsJSONText(fs[filePath])
  THEN Throw(PlainError(<<"Failed to read file: ", "Unexpected end of JSON input">>))
  ELSE Ok(JSONParse(fs[filePath]))

\* a write that patches the file it finds instead of replacing it
writeJSONFileMerging(fs, filePath, data) ==
  [ p \in DOMAIN fs \cup {filePath} |->
      IF p # filePath THEN fs[p]
      ELSE IF filePath \in DOMAIN fs /\ IsJSONText(fs[filePath])
      THEN JSONStringify(Spread(JSONParse(fs[filePath]), data))
      ELSE JSONStringify(data) ]

\* the files after the write
writeJSONFile(fs, filePath, data) ==
  [ p \in DOMAIN fs \cup {filePath} |->
      IF p = filePath THEN JSONStringify(data) ELSE fs[p] ]

\* the files after the unlink, or the error
deleteFile(fs, filePath) ==
  IF filePath \notin DOMAIN fs
  THEN Throw(NotFoundError(<<"File not found: ">> \o filePath))
  ELSE Ok([ p \in DOMAIN fs \ {filePath} |-> fs[p] ])

-----------------------------------------------------------------------------
(* Type guards and message validation *)

isMultiMessagePrompt(prompt) == "version" \in DOMAIN prompt /\ prompt.version = "2.0"

isSingleContentPrompt(prompt) == "content" \in DOMAIN prompt

\* a value that is no string is written as a sequence that begins with
\* the token "typeof " and goes on with its type
NotAString(type) == << "typeof ", type >>

\* typeof obj[key] === 'string'
IsString(obj, key) ==
  key \in DOMAIN obj /\ (obj[key] = <<>> \/ obj[key][1] # "typeof ")

\* a check of the message that asks an image for nothing
isValidMessageTextOnly(message) ==
  /\ "role" \in DOMAIN message
  /\ message.role \in {"user", "assistant"}
  /\ "content" \in DOMAIN message
  /\ "type" \in DOMAIN message.content
  /\ \/ message.content.type = "text" /\ IsString(message.content, "text")
     \/ message.content.type = "image"

isValidMessage(message) ==
  /\ "role" \in DOMAIN message
  /\ message.role \in {"user", "assistant"}
  /\ "content" \in DOMAIN message
  /\ "type" \in DOMAIN message.content
  /\ \/ message.content.type = "text" /\ IsString(message.content, "text")
     \/ message.content.type = "image" /\ IsString(message.content, "image")

\* a validation that looks at the first message only
validateMessagesFirst(messages) ==
  /\ messages # <<>>
  /\ isValidMessage(messages[1])

validateMessages(messages) ==
  /\ messages # <<>>
  /\ \A i \in 1..Len(messages) : isValidMessage(messages[i])

isValidMultiMessagePrompt(data) ==
  /\ IsString(data, "id")
  /\ IsString(data, "name")
  /\ "variables" \in DOMAIN data
  /\ IsString(data, "createdAt")
  /\ "version" \in DOMAIN data /\ data.version = "2.0"
  /\ "messages" \in DOMAIN data
  /\ \A i \in 1..Len(data.messages) : isValidMessage(data.messages[i])
  /\ Len(data.messages) > 0

isValidSingleContentPrompt(data) ==
  /\ IsString(data, "id")
  /\ IsString(data, "name")
  /\ IsString(data, "content")
  /\ IsString(data, "description")
  /\ "variables" \in DOMAIN data
  /\ IsString(data, "createdAt")

isValidPromptStructure(data) ==
  IF "version" \in DOMAIN data /\ data.version = "2.0"
  THEN isValidMultiMessagePrompt(data)
  ELSE isValidSingleContentPrompt(data)

-----------------------------------------------------------------------------
(* Template engine of PromptsService *)

RECURSIVE MapSlice(_)
\* matches.map(match => match.slice(2, -2))
MapSlice(ms) ==
  IF ms = <<>> THEN <<>> ELSE <<Slice(Head(ms), 2, -2)>> \o MapSlice(Tail(ms))

extractVariables(content) == Dedup(MapSlice(Matches(content, 1)), {})

\* reading message.content.type of a message without content throws
MessagesThrow(messages) ==
  \E i \in 1..Len(messages) : "content" \notin DOMAIN messages[i]

RECURSIVE MessageVariables(_)
\* the names of every text message, in message order, repeats included
MessageVariables(messages) ==
  IF messages = <<>> THEN <<>>
  ELSE LET c == Head(messages).content
       IN  (IF c.type = "text" /\ "text" \in DOMAIN c /\ Truthy(c.text)
            THEN extractVariables(c.text) ELSE <<>>)
           \o MessageVariables(Tail(messages))

extractVariablesFromMessages(messages) == Dedup(MessageVariables(messages), {})

\* variables[variable.trim()] || match
Replacement(variables, variable, match) ==
  LET key == Trim(variable)
  IN  IF key \in DOMAIN variables
      THEN (IF Truthy(variables[key]) THEN variables[key] ELSE match)
      ELSE IF key \in ObjectPrototypeKeys THEN FunctionSource(key)
      ELSE match

RECURSIVE ReplaceFrom(_, _, _)
ReplaceFrom(text, variables, i) ==
  IF i > Len(text) THEN <<>>
  ELSE LET e == MatchEnd(text, i)
       IN  IF e = 0 THEN <<text[i]>> \o ReplaceFrom(text, variables, i + 1)
           ELSE Replacement(variables, SubSeq(text, i + 2, e - 2), SubSeq(text, i, e))
                \o ReplaceFrom(text, variables, e + 1)

replaceVariables(text, variables) == ReplaceFrom(text, variables, 1)

-----------------------------------------------------------------------------
(* PromptsService *)

\* PROMPTS_CONFIG.promptsDir
promptsDir == <<"prompts">>

PromptPath(id) == PathJoin(promptsDir, id \o <<".json">>)

\* new Date(t).toISOString()
toISOString(t) == <<"T", t>>

\* `prompt-${uuid.slice(0, 8)}`
NewId(uuid) == <<"prompt-">> \o Slice(uuid, 0, 8)

\* !params[key]: the property is undefined or the empty string
Missing(params, key) == key \notin DOMAIN params \/ ~Truthy(params[key])

\* !s || !s.trim()
Blank(params, key) == Missing(params, key) \/ ~Truthy(Trim(params[key]))

\* params.description?.trim() || ''
DescriptionOf(params) ==
  IF "description" \in DOMAIN params THEN Trim(params.description) ELSE <<>>

\* what a service call leaves behind: the files and what it gave its caller
Done(fs, out) == [ files |-> fs, out |-> out ]

SingleContentPromptOf(params, id, now) ==
  [ id |-> id,
    name |-> Trim(params.name),
    content |-> params.content,
    description |-> DescriptionOf(params),
    variables |-> extractVariables(params.content),
    createdAt |-> now,
    updatedAt |-> now ]

\* the try block of addPrompt and addMultiMessagePrompt: write, then return
SaveNew(fs, prompt) == Done(writeJSONFile(fs, PromptPath(prompt.id), prompt), Ok(prompt))

addPrompt(fs, params, env) ==
  IF Blank(params, "name")
  THEN Done(fs, Throw(ValidationError(<<"Prompt name is required">>)))
  ELSE IF Blank(params, "content")
  THEN Done(fs, Throw(ValidationError(<<"Prompt content is required">>)))
  ELSE SaveNew(fs, SingleContentPromptOf(params, NewId(env.uuid), toISOString(env.now)))

MultiMessagePromptOf(params, id, now) ==
  [ id |-> id,
    name |-> Trim(params.name),
    description |-> DescriptionOf(params),
    variables |-> extractVariablesFromMessages(params.messages),
    createdAt |-> now,
    version |-> "2.0",
    messages |-> params.messages ]

addMultiMessagePrompt(fs, params, env) ==
  IF Blank(params, "name")
  THEN Done(fs, Throw(ValidationError(<<"Prompt name is required">>)))
  ELSE IF "messages" \notin DOMAIN params \/ params.messages = <<>>
  THEN Done(fs, Throw(ValidationError(<<"At least one message is required">>)))
  ELSE IF ~validateMessages(params.messages)
  THEN Done(fs, Throw(ValidationError(<<"Invalid message structure">>)))
  ELSE SaveNew(fs, MultiMessagePromptOf(params, NewId(env.uuid), toISOString(env.now)))

\* the catch clause of getPrompt, deletePrompt and updatePrompt
RethrowNotFound(error, id) ==
  IF IncludesNotFound(error.message)
  THEN Throw(NotFoundError(<<"Prompt not found: ">> \o id))
  ELSE Throw(error)

\* the try block of getPrompt, given what readJSONFile gave
GetRead(read, id) == IF read.ok THEN read ELSE RethrowNotFound(read.error, id)

\* the outcome of getPrompt: the prompt, or the error
getPrompt(fs, id) ==
  IF ~Truthy(id) \/ ~Truthy(Trim(id))
  THEN Throw(ValidationError(<<"Prompt ID is required">>))
  ELSE GetRead(readJSONFile(fs, PromptPath(id)), id)

\* the end of deletePrompt, given what deleteFile gave
DeleteUnlinked(fs, id, unlinked) ==
  IF ~unlinked.ok THEN Done(fs, RethrowNotFound(unlinked.error, id))
  ELSE Done(unlinked.value,
            Ok([ success |-> TRUE,
                 message |-> <<"Prompt ">> \o id \o <<" deleted successfully">> ]))

\* a delete that takes a missing prompt for a deleted one
DeleteExistingOrNot(fs, id, existing) ==
  Done([ p \in DOMAIN fs \ {PromptPath(id)} |-> fs[p] ],
       Ok([ success |-> TRUE,
            message |-> <<"Prompt ">> \o id \o <<" deleted successfully">> ]))

\* the try block of deletePrompt, given what getPrompt gave
DeleteExisting(fs, id, existing) ==
  IF ~existing.ok THEN Done(fs, RethrowNotFound(existing.error, id))
  ELSE DeleteUnlinked(fs, id, deleteFile(fs, PromptPath(id)))

deletePrompt(fs, id) ==
  IF ~Truthy(id) \/ ~Truthy(Trim(id))
  THEN Done(fs, Throw(ValidationError(<<"Prompt ID is required">>)))
  ELSE DeleteExisting(fs, id, getPrompt(fs, id))

\* ...(params.name && { name: params.name.trim() })
NamePatch(params) ==
  IF Missing(params, "name") THEN <<>> ELSE [ name |-> Trim(params.name) ]

\* a patch that empties the description the caller did not send
DescriptionPatchAlways(params) ==
  IF "description" \notin DOMAIN params THEN [ description |-> <<>> ]
  ELSE [ description |-> Trim(params.description) ]

\* ...(params.description !== undefined && { description: params.description.trim() || '' })
DescriptionPatch(params) ==
  IF "description" \notin DOMAIN params THEN <<>>
  ELSE [ description |-> Trim(params.description) ]

\* a patch that keeps the variables of the old messages
MessagesPatchStale(params) ==
  IF "messages" \in DOMAIN params THEN [ messages |-> params.messages ] ELSE <<>>

\* ...(params.messages && { messages, variables })
MessagesPatch(params) ==
  IF "messages" \notin DOMAIN params THEN <<>>
  ELSE [ messages |-> params.messages,
         variables |-> extractVariablesFromMessages(params.messages) ]

\* a conversion that spreads the stored entity and so keeps its content
UpdatedPromptOfKeepingContent(existingPrompt, params, now) ==
  Spread(Spread(Spread(Spread(existingPrompt, NamePatch(params)),
                       DescriptionPatch(params)),
                IF "messages" \in DOMAIN params
                THEN Spread(MessagesPatch(params), [ version |-> "2.0" ])
                ELSE <<>>),
         [ updatedAt |-> now ])

\* the entity updatePrompt builds from the stored one
UpdatedPromptOf(existingPrompt, params, now) ==
  IF isMultiMessagePrompt(existingPrompt)
  THEN Spread(Spread(Spread(Spread(existingPrompt, NamePatch(params)),
                            DescriptionPatch(params)),
                     MessagesPatch(params)),
              [ updatedAt |-> now ])
  ELSE IF "messages" \in DOMAIN params
  THEN [ id |-> existingPrompt.id,
         name |-> IF "name" \in DOMAIN params /\ Truthy(Trim(params.name))
                  THEN Trim(params.name) ELSE existingPrompt.name,
         description |-> IF "description" \in DOMAIN params
                         THEN Trim(params.description)
                         ELSE existingPrompt.description,
         variables |-> extractVariablesFromMessages(params.messages),
         createdAt |-> existingPrompt.createdAt,
         updatedAt |-> now,
         version |-> "2.0",
         messages |-> params.messages ]
  ELSE Spread(Spread(Spread(existingPrompt, NamePatch(params)),
                     DescriptionPatch(params)),
              [ updatedAt |-> now ])

\* the end of updatePrompt: write, then return
SaveUpdated(fs, id, updatedPrompt) ==
  Done(writeJSONFile(fs, PromptPath(id), updatedPrompt),
       Ok([ success |-> TRUE,
            message |-> <<"Prompt ">> \o id \o <<" updated successfully">>,
            prompt |-> updatedPrompt ]))

\* the try block of updatePrompt, given what getPrompt gave
UpdateExisting(fs, params, env, existing) ==
  IF ~existing.ok THEN Done(fs, RethrowNotFound(existing.error, params.id))
  ELSE IF "messages" \in DOMAIN params /\ MessagesThrow(params.messages)
  THEN Done(fs, RethrowNotFound(
                  TypeError(<<"Cannot read properties of undefined (reading 'type')">>),
                  params.id))
  ELSE SaveUpdated(fs, params.id,
                   UpdatedPromptOf(existing.value, params, toISOString(env.now)))

updatePrompt(fs, params, env) ==
  IF Blank(params, "id")
  THEN Done(fs, Throw(ValidationError(<<"Prompt ID is required">>)))
  ELSE IF /\ Missing(params, "name")
          /\ Missing(params, "description")
          /\ "messages" \notin DOMAIN params
  THEN Done(fs, Throw(ValidationError(<<"At least one field to update must be provided">>)))
  ELSE UpdateExisting(fs, params, env, getPrompt(fs, params.id))

\* prompt.variables.filter(variable => !(variable in params.variables))
MissingVariables(names, variables) ==
  SelectSeq(names, LAMBDA variable : ~HasProperty(variables, variable))

\* a substitution that gives every content a text, whatever its kind
AppliedMessageAnyKind(message, variables) ==
  LET c == message.content
  IN  Spread(message,
             [ content |->
                 Spread(c, [ text |-> IF "text" \in DOMAIN c
                                      THEN replaceVariables(c.text, variables)
                                      ELSE <<>> ]) ])

\* one message of appliedMessages
AppliedMessage(message, variables) ==
  LET c == message.content
  IN  Spread(message,
             [ content |->
                 IF c.type = "text" /\ "text" \in DOMAIN c /\ Truthy(c.text)
                 THEN Spread(c, [ text |-> replaceVariables(c.text, variables) ])
                 ELSE c ])

\* JSON.stringify of a list of objects
JSONStringifyList(list) == [ i \in 1..Len(list) |-> JSONStringify(list[i]) ]

\* what applyPrompt returns for a multi-message prompt
AppliedResult(appliedMessages) ==
  Ok([ result |-> JSONStringifyList(appliedMessages), messages |-> appliedMessages ])

\* the substitution of applyPrompt, once no variable is missing
ApplyComplete(prompt, variables) ==
  IF isMultiMessagePrompt(prompt)
  THEN AppliedResult([ i \in 1..Len(prompt.messages) |->
                         AppliedMessage(prompt.messages[i], variables) ])
  ELSE Ok([ result |-> replaceVariables(prompt.content, variables) ])

\* the check of applyPrompt, given the names that are missing
ApplyChecked(prompt, variables, missingVariables) ==
  IF missingVariables # <<>>
  THEN Throw(ValidationError(<<"Missing required variables: ">>
                             \o Join(missingVariables, <<",", " ">>)))
  ELSE ApplyComplete(prompt, variables)

\* the try block of applyPrompt, given what getPrompt gave
ApplyExisting(params, got) ==
  IF ~got.ok THEN got
  ELSE ApplyChecked(got.value, params.variables,
                    MissingVariables(got.value.variables, params.variables))

applyPrompt(fs, params) ==
  IF Blank(params, "id")
  THEN Throw(ValidationError(<<"Prompt ID is required">>))
  ELSE IF "variables" \notin DOMAIN params
  THEN Throw(ValidationError(<<"Variables must be provided as an object">>))
  ELSE ApplyExisting(params, getPrompt(fs, params.id))

\* file.endsWith('.json')
EndsWithJson(file) == file # <<>> /\ file[Len(file)] = ".json"

RECURSIVE InSomeOrder(_)
\* the entries of a directory, in the order readdir gives them
InSomeOrder(set) ==
  IF set = {} THEN <<>>
  ELSE LET x == CHOOSE y \in set : TRUE
       IN  <<x>> \o InSomeOrder(set \ {x})

\* listFiles(promptsDir, '.json') of FileSystemService: here full paths
listFiles(fs) == InSomeOrder({ p \in DOMAIN fs : EndsWithJson(p) })

RECURSIVE ReadAllStopping(_, _)
\* a loop that the first unreadable file ends
ReadAllStopping(fs, paths) ==
  IF paths = <<>> THEN <<>>
  ELSE IF ~readJSONFile(fs, Head(paths)).ok THEN <<>>
  ELSE <<readJSONFile(fs, Head(paths)).value>> \o ReadAllStopping(fs, Tail(paths))

RECURSIVE ReadAll(_, _)
\* the loop of listPrompts: a file that cannot be read is skipped
ReadAll(fs, paths) ==
  IF paths = <<>> THEN <<>>
  ELSE LET r == readJSONFile(fs, Head(paths))
       IN  (IF r.ok THEN <<r.value>> ELSE <<>>) \o ReadAll(fs, Tail(paths))

listPrompts(fs) == Ok(ReadAll(fs, listFiles(fs)))

-----------------------------------------------------------------------------
(* ToolsHandler: the facade *)

\* handleServiceError of src/src/utils/error-handler.ts, the one the
\* handlers import
handleServiceError(error) ==
  IF error.cls = "McpError" THEN error
  ELSE IF error.cls = "error-handler/PromptNotFoundError" THEN McpError(404, error.message)
  ELSE IF error.cls = "error-handler/ValidationError" THEN McpError(400, error.message)
  ELSE McpError(500, <<"An unexpected error occurred: ">> \o error.message)

\* the properties of args a tool hands on; an undefined one is absent
Pick(args, keys) == [ k \in DOMAIN args \cap keys |-> args[k] ]

\* the switch of callTool: the service call of the tool
Dispatch(fs, name, args, env) ==
  CASE name = "add_prompt" ->
         addPrompt(fs, Pick(args, {"name", "content", "description"}), env)
    [] name = "add_multi_message_prompt" ->
         addMultiMessagePrompt(fs, Pick(args, {"name", "description", "messages"}), env)
    [] name = "update_prompt" ->
         updatePrompt(fs, Pick(args, {"id", "name", "description", "messages"}), env)
    [] name = "get_prompt" ->
         Done(fs, getPrompt(fs, IF "id" \in DOMAIN args THEN args.id ELSE <<>>))
    [] name = "list_prompts" ->
         Done(fs, listPrompts(fs))
    [] name = "delete_prompt" ->
         deletePrompt(fs, IF "id" \in DOMAIN args THEN args.id ELSE <<>>)
    [] name = "apply_prompt" ->
         Done(fs, applyPrompt(fs, Pick(args, {"id", "variables"})))
    [] OTHER ->
         Done(fs, Throw(McpError(404, <<"Unknown tool: ", name>>)))

\* the text of the content the tool returns
ToolText(name, value) ==
  IF name = "apply_prompt" THEN value.result
  ELSE IF name = "list_prompts" THEN [ prompts |-> value ]
  ELSE value

\* the return and the catch clause of callTool, given what the service
\* call left: the files, what the service gave (svc) and what the caller of
\* the facade gets (out)
Respond(name, r) ==
  [ files |-> r.files,
    svc   |-> r.out,
    out   |-> IF r.out.ok
              THEN Ok([ content |-> << [ type |-> "text",
                                         text |-> ToolText(name, r.out.value) ] >> ])
              ELSE Throw(handleServiceError(r.out.error)) ]

callTool(fs, name, args, env) == Respond(name, Dispatch(fs, name, args, env))

-----------------------------------------------------------------------------
(* PromptsHandler: prompts/list and prompts/get *)

\* toMcpPrompt: description || undefined leaves an empty description out
toMcpPrompt(prompt) ==
  Spread([ name |-> prompt.name,
           arguments |-> [ i \in 1..Len(prompt.variables) |->
                             [ name |-> prompt.variables[i], required |-> TRUE ] ] ],
         IF "description" \in DOMAIN prompt /\ Truthy(prompt.description)
         THEN [ description |-> prompt.description ] ELSE <<>>)

\* what a service call of the handler leaves: the files, what the service
\* gave (svc) and what the caller of the handler gets (out)
Handled(fs, svc, out) ==
  [ files |-> fs,
    svc   |-> svc,
    out   |-> IF out.ok THEN out ELSE Throw(handleServiceError(out.error)) ]

\* a listing that removes the blobs it cannot read
McpListPromptsPruning(fs) ==
  Handled([ p \in { q \in DOMAIN fs : readJSONFile(fs, q).ok } |-> fs[p] ],
          listPrompts(fs),
          Ok([ prompts |-> [ i \in 1..Len(listPrompts(fs).value) |->
                               toMcpPrompt(listPrompts(fs).value[i]) ] ]))

\* prompt.variables.map throws for a prompt without variables
ListedThrow(prompts) == \E i \in 1..Len(prompts) : "variables" \notin DOMAIN prompts[i]

\* PromptsHandler.listPrompts
McpListPrompts(fs) ==
  Handled(fs, listPrompts(fs),
          IF ListedThrow(listPrompts(fs).value)
          THEN Throw(TypeError(<<"Cannot read properties of undefined (reading 'map')">>))
          ELSE Ok([ prompts |-> [ i \in 1..Len(listPrompts(fs).value) |->
                                    toMcpPrompt(listPrompts(fs).value[i]) ] ]))

\* message.content.text || message.content.image
TextOrImage(c) ==
  IF "text" \in DOMAIN c /\ Truthy(c.text) THEN [ text |-> c.text ]
  ELSE IF "image" \in DOMAIN c THEN [ text |-> c.image ]
  ELSE <<>>

\* the messages of the result of prompts/get
McpMessages(messages) ==
  [ i \in 1..Len(messages) |->
      [ role |-> messages[i].role,
        content |-> Spread([ type |-> messages[i].content.type ],
                           TextOrImage(messages[i].content)) ] ]

McpSingleMessage(text) ==
  << [ role |-> "user", content |-> [ type |-> "text", text |-> text ] ] >>

\* prompts.find(p => p.name === name): the first index, or 0
FindByName(prompts, name) ==
  IF \E i \in 1..Len(prompts) : prompts[i].name = name
  THEN CHOOSE i \in 1..Len(prompts) :
         /\ prompts[i].name = name
         /\ \A j \in 1..(i - 1) : prompts[j].name # name
  ELSE 0

\* getPrompt of the handler once the prompt is found, given what applyPrompt
\* gave (applied) when arguments came with the request
McpGetFound(fs, prompt, hasArgs, applied) ==
  IF hasArgs
  THEN Handled(fs, applied,
               IF ~applied.ok THEN applied
               ELSE IF isMultiMessagePrompt(prompt) /\ "messages" \in DOMAIN applied.value
               THEN Ok([ messages |-> McpMessages(applied.value.messages) ])
               ELSE Ok([ messages |-> McpSingleMessage(applied.value.result) ]))
  ELSE Handled(fs, Ok(prompt),
               IF isMultiMessagePrompt(prompt)
               THEN Ok([ messages |-> McpMessages(prompt.messages) ])
               ELSE Ok([ messages |-> McpSingleMessage(prompt.content) ]))

\* getPrompt of the handler, given the listing and the index found in it
McpGetListed(fs, params, prompts, i) ==
  IF i = 0
  THEN Handled(fs, Throw(PlainError(<<"Prompt not found: ">> \o params.name)),
               Throw(PlainError(<<"Prompt not found: ">> \o params.name)))
  ELSE McpGetFound(fs, prompts[i], "arguments" \in DOMAIN params,
                   IF "arguments" \in DOMAIN params
                   THEN applyPrompt(fs, [ id |-> prompts[i].id,
                                          variables |-> params.arguments ])
                   ELSE Ok(<<>>))

\* PromptsHandler.getPrompt(name, args)
McpGetPrompt(fs, params) ==
  McpGetListed(fs, params, listPrompts(fs).value,
               FindByName(listPrompts(fs).value, params.name))

-----------------------------------------------------------------------------
(* PromptsHandler: the file watcher.  watch(dir, { signal }) gives an     *)
(* asynchronous iterable: it yields the events of the directory while its *)
(* signal is not aborted; abort() closes it, and the iteration then ends  *)
(* with an AbortError.  A subscription is the handle of one watch() call  *)
(* and the loop of setupFileWatcher that iterates over it.                *)

\* the handler after its constructor: abortController and fileWatcher are
\* null (0); subs are the subscriptions made so far; mutations and sent are
\* the history of the storage events and of the notification calls
NewPromptsHandler ==
  [ abortController |-> 0,
    fileWatcher     |-> 0,
    subs            |-> <<>>,
    mutations       |-> <<>>,
    sent            |-> <<>> ]

\* the subscription setupFileWatcher begins: the handle observes (open) or
\* could not be set up (failed); the loop awaits the next event
NewSubscription(established) ==
  [ handle |-> IF established THEN "open" ELSE "failed",
    loop   |-> "awaiting",
    queue  |-> <<>>,
    seen   |-> 0 ]

\* abortController.abort(): the handle of its watch is closed
Abort(subs, controller) ==
  [ i \in 1..Len(subs) |->
      IF i = controller /\ subs[i].handle = "open"
      THEN [ subs[i] EXCEPT !.handle = "closed" ]
      ELSE subs[i] ]

\* a start that leaves the prior watch as it is
AbortPriorNot(n) == n.subs

\* if (this.abortController) this.abortController.abort()
AbortPrior(n) ==
  IF n.abortController # 0 THEN Abort(n.subs, n.abortController) ELSE n.subs

\* setupFileWatcher up to its first await: the prior controller is aborted,
\* a new one is made and watch() is called with its signal
setupFileWatcher(n, established) ==
  [ n EXCEPT !.abortController = Len(n.subs) + 1,
             !.fileWatcher = Len(n.subs) + 1,
             !.subs = Append(AbortPrior(n), NewSubscription(established)) ]

\* a dispose that drops the controller and does not abort it
disposeWithoutAbort(n) ==
  [ n EXCEPT !.abortController = 0, !.fileWatcher = 0 ]

\* dispose
dispose(n) ==
  [ n EXCEPT !.abortController = 0,
             !.fileWatcher = 0,
             !.subs = AbortPrior(n) ]

\* the eventType values fs.watch reports
EventTypes == { "change", "rename" }

\* a loop body that takes a change for a change of the list, a rename not
NotifiesOnChangeOnly(event) == event.eventType = "change"

\* if (fsEvent.eventType === 'change' || fsEvent.eventType === 'rename')
Notifies(event) == event.eventType = "change" \/ event.eventType = "rename"

\* the directory changes: every open handle queues the event
Observe(n, eventType, whileIdle) ==
  [ n EXCEPT !.mutations = Append(n.mutations, [ eventType |-> eventType, idle |-> whileIdle ]),
             !.subs = [ i \in 1..Len(n.subs) |->
                          IF n.subs[i].handle = "open"
                          THEN [ n.subs[i] EXCEPT
                                   !.queue = Append(@, [ seq |-> Len(n.mutations) + 1,
                                                         eventType |-> eventType ]),
                                   !.seen = @ + 1 ]
                          ELSE n.subs[i] ] ]

\* one iteration of the for await loop of subscription i: the body, with
\* sendListChangedNotification
LoopBody(n, i, event) ==
  [ n EXCEPT !.subs[i].queue = Tail(@),
             !.sent = IF Notifies(event)
                      THEN Append(@, [ seq |-> event.seq, by |-> i,
                                       method |-> "notifications/prompts/list_changed" ])
                      ELSE @ ]

\* the iteration throws (AbortError after abort(), or the error of a watch
\* that could not be set up); the catch clause ends setupFileWatcher
LoopEnd(n, i) ==
  [ n EXCEPT !.subs[i].loop = "ended", !.subs[i].queue = <<>> ]

-----------------------------------------------------------------------------
(* What the callers send *)

HexDigits == { "0", "1", "2", "3", "4", "5", "6", "7", "8", "9",
               "a", "b", "c", "d", "e", "f" }

\* a version 4 UUID whose 8th and last characters are c8 and c36
Uuid(c8, c36) ==
  [ i \in 1..36 |->
      IF i \in {9, 14, 19, 24} THEN "-"
      ELSE IF i = 15 THEN "4"
      ELSE IF i = 20 THEN "8"
      ELSE IF i = 8 THEN c8
      ELSE IF i = 36 THEN c36
      ELSE "0" ]

\* a blank id, and a blank and a padded name
BlankId == <<" ">>

BlankName == <<" ">>

PaddedName == <<" ", "n", " ">>

\* "{{}}{{b}} {{a}}{{b}}"
TextBAB == <<"{", "{", "}", "}", "{", "{", "b", "}", "}", " ",
             "{", "{", "a", "}", "}", "{", "{", "b", "}", "}">>

\* "{{ a }}"
TextPadded == <<"{", "{", " ", "a", " ", "}", "}">>

\* "{{toString}}"
TextToString == <<"{", "{", "toString", "}", "}">>

BlankText == <<" ">>

TextMessage(role, text) == [ role |-> role, content |-> [ type |-> "text", text |-> text ] ]

\* "{{b}}"
MsgB == TextMessage("user", <<"{", "{", "b", "}", "}">>)

\* "{{a}}{{b}}"
MsgAB == TextMessage("assistant", <<"{", "{", "a", "}", "}", "{", "{", "b", "}", "}">>)

MsgImage == [ role |-> "user", content |-> [ type |-> "image", image |-> <<"base64">> ] ]

\* a role the schema does not know
MsgSystem == TextMessage("system", <<"{", "{", "c", "}", "}">>)

\* a message without content
MsgNoContent == [ role |-> "user" ]

\* value maps of apply_prompt: a and b; a empty; a padded key
ValuesAB == [ k \in { <<"a">>, <<"b">> } |-> IF k = <<"a">> THEN <<"A">> ELSE <<"B">> ]

ValuesEmptyA == [ k \in { <<"a">>, <<"b">> } |-> IF k = <<"a">> THEN <<>> ELSE <<"B">> ]

ValuesPadded == [ k \in { <<" ", "a", " ">> } |-> <<"A">> ]

\* base, and base with property key set to each of values
WithOptional(base, key, values) ==
  { base } \cup { Spread(base, [ k \in {key} |-> v ]) : v \in values }

\* the ids callers ask for: every id a create can assign, and a blank one
IdPool(uuids) == { NewId(u) : u \in uuids } \cup { BlankId }

AddArgs(contents) ==
  { [ name |-> PaddedName, content |-> c ] : c \in contents }
    \cup { [ name |-> BlankName, content |-> TextBAB ] }

AddMultiArgs(messages) ==
  { [ name |-> PaddedName, messages |-> m ] : m \in messages }
    \cup { [ name |-> BlankName, messages |-> <<MsgB>> ] }

UpdateArgs(ids, messages) ==
  UNION { WithOptional(b, "messages", messages) :
            b \in UNION { WithOptional([ id |-> i ], "name", {PaddedName}) : i \in ids } }

ApplyArgs(ids, variables) == { [ id |-> i, variables |-> v ] : i \in ids, v \in variables }

\* what the callers of one specification send
Pools(uuids, contents, messages, variables) ==
  [ uuids    |-> uuids,
    ids      |-> IdPool(uuids),
    add      |-> AddArgs(contents),
    addMulti |-> AddMultiArgs(messages),
    update   |-> UpdateArgs(IdPool(uuids), messages),
    apply    |-> ApplyArgs(IdPool(uuids), variables) ]

\* the calls of the store life cycle: two uuids agree on their first 8
\* characters
StorePools ==
  Pools({ Uuid("a", "0"), Uuid("a", "1"), Uuid("b", "0") },
        { BlankText, TextBAB },
        { <<>>, <<MsgB>>, <<MsgNoContent>> },
        { <<>>, ValuesAB })

\* the calls of the template engine: every text, message list and value map
TemplatePools ==
  Pools({ Uuid("a", "0"), Uuid("b", "0") },
        { BlankText, TextBAB, TextPadded, TextToString },
        { <<>>, <<MsgB>>, <<MsgAB, MsgB>>, <<MsgB, MsgImage>>, <<MsgSystem>>, <<MsgNoContent>> },
        { <<>>, ValuesAB, ValuesEmptyA, ValuesPadded })

\* a text message whose content carries an image and no text
MsgTextNoText == [ role |-> "user", content |-> [ type |-> "text", image |-> <<"base64">> ] ]

\* an image message whose content carries no image
MsgImageNoImage == [ role |-> "assistant", content |-> [ type |-> "image" ] ]

\* a message of a kind the schema does not know
MsgAudio == [ role |-> "user", content |-> [ type |-> "audio", text |-> <<"t">> ] ]

\* the calls that meet or miss a precondition: names, contents and
\* descriptions that are absent, empty, blank or given; message lists that
\* are empty, well shaped, or ill shaped at the first or the last message
ValidationPools ==
  [ uuids    |-> { Uuid("a", "0"), Uuid("b", "0") },
    ids      |-> IdPool({ Uuid("a", "0"), Uuid("b", "0") }),
    add      |-> UNION { WithOptional(b, "content", { <<>>, BlankText, TextBAB }) :
                           b \in WithOptional(<<>>, "name", { <<>>, BlankName, PaddedName }) },
    addMulti |-> UNION { WithOptional(b, "messages",
                                      { <<>>, <<MsgB>>, <<MsgB, MsgImage>>, <<MsgSystem>>,
                                        <<MsgNoContent>>, <<MsgB, MsgTextNoText>>,
                                        <<MsgImageNoImage, MsgB>>, <<MsgAudio>> }) :
                           b \in WithOptional(<<>>, "name", { <<>>, BlankName, PaddedName }) },
    update   |-> UNION { WithOptional(b, "messages", { <<>>, <<MsgB>> }) :
                   b \in UNION { WithOptional(c, "description", { <<>>, <<"d">> }) :
                     c \in UNION { WithOptional([ id |-> i ], "name", { <<>>, PaddedName }) :
                                     i \in IdPool({ Uuid("a", "0") }) } } },
    apply    |-> ApplyArgs(IdPool({ Uuid("a", "0") }), { <<>> }) ]

\* a text cut short: JSON.parse rejects it
CorruptText == { << "{" >> }

\* a file of the prompts directory that is no prompt file
NotesPath == PathJoin(promptsDir, << "notes", ".md" >>)

\* the calls of the read paths
ReadPools ==
  Pools({ Uuid("a", "0"), Uuid("b", "0") },
        { TextBAB },
        { <<MsgB, MsgImage>> },
        { <<>>, ValuesAB })

\* the files another process writes in the prompts directory
ExternalPaths == { PromptPath(NewId(u)) : u \in ReadPools.uuids } \cup { NotesPath }

\* the requests prompts/get: a name and, or not, arguments
McpGetArgs ==
  UNION { WithOptional([ name |-> n ], "arguments", { <<>>, ValuesAB }) :
            n \in { <<"n">>, <<"m">> } }

-----------------------------------------------------------------------------
(* The state machine: one action per call of the facade *)

\* the prompts directory once the mkdir of the constructor is done
Ensured == [ dir |-> "present", ensure |-> "done" ]

NoCall == [ tool |-> "", args |-> <<>>, id |-> <<>>, svc |-> Ok(<<>>), out |-> Ok(<<>>) ]

Init ==
  /\ files = <<>>
  /\ clock = 1
  /\ result = NoCall
  /\ updated = {}
  /\ notifier = NewPromptsHandler
  /\ inflight = <<>>
  /\ root = Ensured

\* the tools that create an entity
CreateTools == { "add_prompt", "add_multi_message_prompt" }

\* what the call leaves in `result`
Called(name, args, r) ==
  [ tool |-> name,
    args |-> args,
    id |-> IF "id" \in DOMAIN args THEN args.id
           ELSE IF r.svc.ok /\ name \in CreateTools THEN r.svc.value.id
           ELSE <<>>,
    svc |-> r.svc,
    out |-> r.out ]

\* `updated` after the call
UpdatedAfter(name, c) ==
  IF ~c.svc.ok THEN updated
  ELSE IF name = "update_prompt" THEN updated \cup {c.id}
  ELSE IF name \in CreateTools \cup {"delete_prompt"} THEN updated \ {c.id}
  ELSE updated

\* what uuidv4() would give a call that does not ask for it
NoUuid == Uuid("0", "0")

\* what the call reads besides its arguments
Env(uuid) == [ uuid |-> uuid, now |-> clock ]

AddPromptCall(P) ==
  \E args \in P.add, uuid \in P.uuids :
    \E r \in { callTool(files, "add_prompt", args, Env(uuid)) } :
        /\ files' = r.files
        /\ result' = Called("add_prompt", args, r)
        /\ updated' = UpdatedAfter("add_prompt", result')
        /\ UNCHANGED <<clock, notifier, inflight, root>>

AddMultiMessagePromptCall(P) ==
  \E args \in P.addMulti, uuid \in P.uuids :
    \E r \in { callTool(files, "add_multi_message_prompt", args, Env(uuid)) } :
        /\ files' = r.files
        /\ result' = Called("add_multi_message_prompt", args, r)
        /\ updated' = UpdatedAfter("add_multi_message_prompt", result')
        /\ UNCHANGED <<clock, notifier, inflight, root>>

UpdatePromptCall(P) ==
  \E args \in P.update :
    \E r \in { callTool(files, "update_prompt", args, Env(NoUuid)) } :
        /\ files' = r.files
        /\ result' = Called("update_prompt", args, r)
        /\ updated' = UpdatedAfter("update_prompt", result')
        /\ UNCHANGED <<clock, notifier, inflight, root>>

GetPromptCall(P) ==
  \E id \in P.ids :
    \E r \in { callTool(files, "get_prompt", [ id |-> id ], Env(NoUuid)) } :
        /\ files' = r.files
        /\ result' = Called("get_prompt", [ id |-> id ], r)
        /\ UNCHANGED <<clock, updated, notifier, inflight, root>>

ListPromptsCall ==
  \E r \in { callTool(files, "list_prompts", <<>>, Env(NoUuid)) } :
        /\ files' = r.files
        /\ result' = Called("list_prompts", <<>>, r)
        /\ UNCHANGED <<clock, updated, notifier, inflight, root>>

DeletePromptCall(P) ==
  \E id \in P.ids :
    \E r \in { callTool(files, "delete_prompt", [ id |-> id ], Env(NoUuid)) } :
        /\ files' = r.files
        /\ result' = Called("delete_prompt", [ id |-> id ], r)
        /\ updated' = UpdatedAfter("delete_prompt", result')
        /\ UNCHANGED <<clock, notifier, inflight, root>>

ApplyPromptCall(P) ==
  \E args \in P.apply :
    \E r \in { callTool(files, "apply_prompt", args, Env(NoUuid)) } :
        /\ files' = r.files
        /\ result' = Called("apply_prompt", args, r)
        /\ UNCHANGED <<clock, updated, notifier, inflight, root>>

UnknownToolCall ==
  \E r \in { callTool(files, "export_prompt", <<>>, Env(NoUuid)) } :
        /\ files' = r.files
        /\ result' = Called("export_prompt", <<>>, r)
        /\ UNCHANGED <<clock, updated, notifier, inflight, root>>

\* time passes
Tick ==
  /\ clock < MaxClock
  /\ clock' = clock + 1
  /\ UNCHANGED <<files, result, updated, notifier, inflight, root>>

Calls(P) ==
  \/ AddPromptCall(P)
  \/ AddMultiMessagePromptCall(P)
  \/ UpdatePromptCall(P)
  \/ GetPromptCall(P)
  \/ ListPromptsCall
  \/ DeletePromptCall(P)
  \/ ApplyPromptCall(P)
  \/ UnknownToolCall

Next == Calls(StorePools) \/ Tick

\* the store life cycle
Spec == Init /\ [][Next]_vars

NextTemplate == Calls(TemplatePools)

\* the template engine behind the store, at one instant
SpecTemplate == Init /\ [][NextTemplate]_vars

NextValidation == Calls(ValidationPools)

\* the preconditions of the calls
SpecValidation == Init /\ [][NextValidation]_vars

\* prompts/list
McpListPromptsCall ==
  \E r \in { McpListPrompts(files) } :
        /\ files' = r.files
        /\ result' = Called("prompts/list", <<>>, r)
        /\ UNCHANGED <<clock, updated, notifier, inflight, root>>

\* prompts/get
McpGetPromptCall ==
  \E params \in McpGetArgs :
    \E r \in { McpGetPrompt(files, params) } :
        /\ files' = r.files
        /\ result' = Called("prompts/get", params, r)
        /\ UNCHANGED <<clock, updated, notifier, inflight, root>>

\* another process leaves a text cut short in the prompts directory; the
\* write is no call of the facade
ExternalWrite ==
  \E path \in ExternalPaths :
        /\ files' = [ p \in DOMAIN files \cup {path} |->
                        IF p = path THEN CorruptText ELSE files[p] ]
        /\ result' = NoCall
        /\ UNCHANGED <<clock, updated, notifier, inflight, root>>

NextRead ==
  \/ Calls(ReadPools)
  \/ McpListPromptsCall
  \/ McpGetPromptCall
  \/ ExternalWrite

\* the read paths over a directory that holds unreadable files
SpecRead == Init /\ [][NextRead]_vars

\* setupFileWatcher is called: it runs to the first await of its loop; the
\* watch is established, or it is not (no such directory, no recursive
\* watching on the platform)
SetupFileWatcherCall ==
  /\ Len(notifier.subs) < MaxStarts
  /\ \E established \in BOOLEAN :
        /\ notifier' = setupFileWatcher(notifier, established)
        /\ UNCHANGED <<files, clock, result, updated, inflight, root>>

\* dispose is called
DisposeCall ==
  /\ notifier' = dispose(notifier)
  /\ UNCHANGED <<files, clock, result, updated, inflight, root>>

\* the prompts directory changes
StorageEvent ==
  /\ Len(notifier.mutations) < MaxEvents
  /\ \E eventType \in EventTypes :
        /\ notifier' = Observe(notifier, eventType, notifier.abortController = 0)
        /\ UNCHANGED <<files, clock, result, updated, inflight, root>>

\* the loop of a subscription takes the next event its iterable yields:
\* while the handle is open, and for the events queued before an abort
LoopIteration ==
  \E i \in 1..Len(notifier.subs) :
        /\ notifier.subs[i].loop = "awaiting"
        /\ notifier.subs[i].handle # "failed"
        /\ notifier.subs[i].queue # <<>>
        /\ notifier' = LoopBody(notifier, i, Head(notifier.subs[i].queue))
        /\ UNCHANGED <<files, clock, result, updated, inflight, root>>

\* the loop of a subscription ends: its iterable throws, the catch clause
\* of setupFileWatcher takes the error and the call returns
LoopExit ==
  \E i \in 1..Len(notifier.subs) :
        /\ notifier.subs[i].loop = "awaiting"
        /\ notifier.subs[i].handle # "open"
        /\ notifier' = LoopEnd(notifier, i)
        /\ UNCHANGED <<files, clock, result, updated, inflight, root>>

NextNotifier ==
  \/ SetupFileWatcherCall
  \/ DisposeCall
  \/ StorageEvent
  \/ LoopIteration
  \/ LoopExit

\* the change notifier
SpecNotifier == Init /\ [][NextNotifier]_vars

-----------------------------------------------------------------------------
(* Calls in flight.  The handler of tools/call is an async function and    *)
(* nothing queues the requests: a call runs until it awaits the file       *)
(* system, and another call may run before it is resumed.  update_prompt   *)
(* awaits its read and then its write, delete_prompt its read and then its *)
(* unlink; a create awaits its write alone.  A read, a write and an unlink *)
(* of the blob store are each one step.                                    *)

\* update_prompt after its read: the entity is built, the write is awaited.
\* raced: the entities other calls wrote under the same id meanwhile
AwaitingWrite(args, prompt) ==
  [ tool |-> "update_prompt", args |-> args, prompt |-> prompt, raced |-> {} ]

\* delete_prompt after its read: the unlink is awaited
AwaitingUnlink(args) ==
  [ tool |-> "delete_prompt", args |-> args, prompt |-> <<>>, raced |-> {} ]

\* the calls in flight without the i-th
Resumed(calls, i) == SubSeq(calls, 1, i - 1) \o SubSeq(calls, i + 1, Len(calls))

\* the calls in flight once another call wrote the prompt under the id
RacedBy(calls, id, prompt) ==
  [ j \in 1..Len(calls) |->
      IF calls[j].tool = "update_prompt" /\ calls[j].args.id = id
      THEN [ calls[j] EXCEPT !.raced = @ \cup {prompt} ]
      ELSE calls[j] ]

\* what a call that returned leaves in `result`
Returned(name, args, r, raced) == Spread(Called(name, args, r), [ raced |-> raced ])

\* the calls that race: creates and deletes of two ids, updates of one
ConcurrentPools ==
  [ uuids  |-> { Uuid("a", "0"), Uuid("b", "0") },
    ids    |-> { NewId(Uuid("a", "0")), NewId(Uuid("b", "0")) },
    add    |-> { [ name |-> PaddedName, content |-> TextBAB ] },
    update |-> UNION { WithOptional(b, "messages", { <<MsgB>> }) :
                 b \in WithOptional([ id |-> NewId(Uuid("a", "0")) ], "name", { <<"m">> }) } ]

\* a create: its one await is the write
AddPromptWrite(P) ==
  \E args \in P.add, uuid \in P.uuids :
    \E r \in { callTool(files, "add_prompt", args, Env(uuid)) } :
        /\ files' = r.files
        /\ result' = Returned("add_prompt", args, r, {})
        /\ updated' = UpdatedAfter("add_prompt", result')
        /\ UNCHANGED <<clock, notifier, inflight, root>>

\* update_prompt to its second await: it throws, or it has built the entity
\* from what it read and asks for the write
UpdatePromptRead(P) ==
  /\ Len(inflight) < MaxInflight
  /\ \E args \in P.update :
       \E r \in { callTool(files, "update_prompt", args, Env(NoUuid)) } :
           /\ inflight' = IF r.svc.ok
                          THEN Append(inflight, AwaitingWrite(args, r.svc.value.prompt))
                          ELSE inflight
           /\ result' = IF r.svc.ok THEN result
                        ELSE Returned("update_prompt", args, r, {})
           /\ UNCHANGED <<files, clock, updated, notifier, root>>

\* the write of an update_prompt is done: the call returns
UpdatePromptWrite ==
  \E i \in 1..Len(inflight) :
    /\ inflight[i].tool = "update_prompt"
    /\ \E r \in { Respond("update_prompt",
                          SaveUpdated(files, inflight[i].args.id, inflight[i].prompt)) } :
           /\ files' = r.files
           /\ result' = Returned("update_prompt", inflight[i].args, r, inflight[i].raced)
           /\ updated' = UpdatedAfter("update_prompt", result')
           /\ inflight' = RacedBy(Resumed(inflight, i), inflight[i].args.id,
                                  inflight[i].prompt)
           /\ UNCHANGED <<clock, notifier, root>>

\* delete_prompt to its second await: it throws, or it asks for the unlink
DeletePromptRead(P) ==
  /\ Len(inflight) < MaxInflight
  /\ \E id \in P.ids :
       \E r \in { Respond("delete_prompt", Done(files, getPrompt(files, id))) } :
           /\ inflight' = IF r.svc.ok
                          THEN Append(inflight, AwaitingUnlink([ id |-> id ]))
                          ELSE inflight
           /\ result' = IF r.svc.ok THEN result
                        ELSE Returned("delete_prompt", [ id |-> id ], r, {})
           /\ UNCHANGED <<files, clock, updated, notifier, root>>

\* the unlink of a delete_prompt is done, or it failed: the call returns
DeletePromptUnlink ==
  \E i \in 1..Len(inflight) :
    /\ inflight[i].tool = "delete_prompt"
    /\ \E r \in { Respond("delete_prompt",
                          DeleteUnlinked(files, inflight[i].args.id,
                                         deleteFile(files, PromptPath(inflight[i].args.id)))) } :
           /\ files' = r.files
           /\ result' = Returned("delete_prompt", inflight[i].args, r, inflight[i].raced)
           /\ updated' = UpdatedAfter("delete_prompt", result')
           /\ inflight' = Resumed(inflight, i)
           /\ UNCHANGED <<clock, notifier, root>>

NextConcurrent ==
  \/ AddPromptWrite(ConcurrentPools)
  \/ UpdatePromptRead(ConcurrentPools)
  \/ UpdatePromptWrite
  \/ DeletePromptRead(ConcurrentPools)
  \/ DeletePromptUnlink

\* the facade under calls that arrive while others are in flight
SpecConcurrent == Init /\ [][NextConcurrent]_vars

-----------------------------------------------------------------------------
(* The pure functions on their own: the template engine and the message   *)
(* validation, each applied to an input of a bounded set                  *)

\* "{{a}}{{b}}"
TextAB == <<"{", "{", "a", "}", "}", "{", "{", "b", "}", "}">>

\* "{{{{a}}b}} {{c}}"
TextNested == <<"{", "{", "{", "{", "a", "}", "}", "b", "}", "}", " ",
                "{", "{", "c", "}", "}">>

\* "{{toString}}{{b}}"
TextToStringB == <<"{", "{", "toString", "}", "}", "{", "{", "b", "}", "}">>

\* "{{ a }}{{a}}"
TextPaddedA == <<"{", "{", " ", "a", " ", "}", "}", "{", "{", "a", "}", "}">>

\* "no placeholder"
TextPlain == <<"no", " ", "placeholder">>

EngineTexts ==
  { <<>>, TextPlain, TextAB, TextBAB, TextNested, TextToStringB, TextPadded, TextPaddedA }

\* one value for one name
OneValue(name, value) == [ k \in { name } |-> value ]

\* value maps: none, a plain value, an empty one, one that holds a
\* placeholder, and values for two names
EngineValues ==
  { <<>>, OneValue(<<"a">>, <<"A">>), OneValue(<<"b">>, <<"B">>),
    OneValue(<<"a">>, <<>>), OneValue(<<"c">>, <<"C">>),
    OneValue(<<"a">>, <<"{", "{", "z", "}", "}">>), ValuesAB }

\* a text message whose text is a number
MsgTextNumber ==
  [ role |-> "user", content |-> [ type |-> "text", text |-> NotAString("number") ] ]

\* an image message whose image is an object
MsgImageObject ==
  [ role |-> "assistant", content |-> [ type |-> "image", image |-> NotAString("object") ] ]

\* a text message with the empty text
MsgEmptyText == TextMessage("assistant", <<>>)

\* a content without a type
MsgNoType == [ role |-> "user", content |-> [ text |-> <<"t">> ] ]

\* a message without a role
MsgNoRole == [ content |-> [ type |-> "text", text |-> <<"t">> ] ]

PureMessages ==
  { MsgB, MsgImage, MsgEmptyText, MsgSystem, MsgNoContent, MsgNoType, MsgNoRole,
    MsgTextNoText, MsgImageNoImage, MsgAudio, MsgTextNumber, MsgImageObject }

\* message lists of up to MaxMessages messages
PureMessageLists ==
  UNION { [ 1..n -> PureMessages ] : n \in 0..MaxMessages }

\* the inputs of the pure functions
PureInputs ==
  { [ text |-> t, variables |-> v ] : t \in EngineTexts, v \in EngineValues }
    \cup { [ messages |-> m ] : m \in PureMessageLists }

\* an input that no function was applied to yet
Input(args) == [ NoCall EXCEPT !.args = args ]

InitPure ==
  /\ files = <<>>
  /\ clock = 1
  /\ result \in { Input(args) : args \in PureInputs }
  /\ updated = {}
  /\ notifier = NewPromptsHandler
  /\ inflight = <<>>
  /\ root = Ensured

\* what the function gave for the input
Applied(name, value) ==
  [ result EXCEPT !.tool = name, !.svc = Ok(value), !.out = Ok(value) ]

ExtractVariablesApply ==
  /\ result.tool = ""
  /\ "text" \in DOMAIN result.args
  /\ result' = Applied("extractVariables", extractVariables(result.args.text))
  /\ UNCHANGED <<files, clock, updated, notifier, inflight, root>>

ReplaceVariablesApply ==
  /\ result.tool = ""
  /\ "text" \in DOMAIN result.args
  /\ result' = Applied("replaceVariables",
                       replaceVariables(result.args.text, result.args.variables))
  /\ UNCHANGED <<files, clock, updated, notifier, inflight, root>>

ValidateMessagesApply ==
  /\ result.tool = ""
  /\ "messages" \in DOMAIN result.args
  /\ result' = Applied("validateMessages", validateMessages(result.args.messages))
  /\ UNCHANGED <<files, clock, updated, notifier, inflight, root>>

NextPure ==
  \/ ExtractVariablesApply
  \/ ReplaceVariablesApply
  \/ ValidateMessagesApply

\* the pure functions
SpecPure == InitPure /\ [][NextPure]_vars

-----------------------------------------------------------------------------
(* The listing over a directory that other processes write to *)

\* a text that parses and is no prompt: {"name": "x"}
ForeignText == JSONStringify([ name |-> <<"x">> ])

\* where the other process writes: the file of an id no update names
ForeignPath == PromptPath(NewId(Uuid("b", "0")))

\* the calls of the listing: creates of two ids, updates of one
ListPools ==
  [ uuids    |-> { Uuid("a", "0"), Uuid("b", "0") },
    ids      |-> { NewId(Uuid("a", "0")), NewId(Uuid("b", "0")) },
    add      |-> { [ name |-> PaddedName, content |-> TextBAB ] },
    addMulti |-> { [ name |-> PaddedName, messages |-> << MsgB, MsgImage >> ] },
    update   |-> UNION { WithOptional([ id |-> NewId(Uuid("a", "0")), name |-> n ],
                                      "messages", { <<MsgB>> }) :
                           n \in { <<"m">>, <<"k">> } } ]

\* another process writes a file of the prompts directory: a text cut
\* short, or a text that parses and is no prompt
ForeignWrite ==
  \E text \in { CorruptText, ForeignText } :
        /\ files' = [ p \in DOMAIN files \cup {ForeignPath} |->
                        IF p = ForeignPath THEN text ELSE files[p] ]
        /\ result' = NoCall
        /\ UNCHANGED <<clock, updated, notifier, inflight, root>>

NextList ==
  \/ AddPromptCall(ListPools)
  \/ AddMultiMessagePromptCall(ListPools)
  \/ UpdatePromptCall(ListPools)
  \/ DeletePromptCall(ListPools)
  \/ ListPromptsCall
  \/ McpListPromptsCall
  \/ ForeignWrite
  \/ Tick

\* the listing
SpecList == Init /\ [][NextList]_vars

-----------------------------------------------------------------------------
(* The start of the repository.  The constructor of PromptsService calls   *)
(* ensurePromptsDirectory and does not await it: the mkdir is asked for,   *)
(* and the calls that follow run while it is pending                       *)

\* new PromptsService() where the directory is there or not: the mkdir is
\* issued and its promise dropped
NewPromptsService(dir) == [ dir |-> dir, ensure |-> "issued" ]

\* fs.mkdir(directory, { recursive: true }) is done: the directory is made,
\* or ensurePromptsDirectory rethrows and the promise nobody holds rejects
ensureDirectory(r, made) ==
  IF made THEN Ensured ELSE [ r EXCEPT !.ensure = "unhandled" ]

\* the catch clause of writeJSONFile: fs.writeFile fails in a directory that
\* is not there
WriteIn(r, fs, saved) ==
  IF r.dir = "present" THEN saved
  ELSE Done(fs, Throw(PlainError(<<"Failed to write file: ", "ENOENT">>)))

\* a create after its checks: the entity is built, the write is awaited
AwaitingCreate(tool, args, prompt) ==
  [ tool |-> tool, args |-> args, prompt |-> prompt, raced |-> {} ]

\* the creates of the first calls
BootPools ==
  [ uuids   |-> { Uuid("a", "0"), Uuid("b", "0") },
    creates |-> { [ tool |-> "add_prompt", args |-> a ] :
                    a \in { [ name |-> PaddedName, content |-> TextBAB ],
                            [ name |-> BlankName, content |-> TextBAB ] } }
                \cup { [ tool |-> "add_multi_message_prompt",
                         args |-> [ name |-> PaddedName, messages |-> <<MsgB>> ] ] } ]

InitBoot ==
  /\ files = <<>>
  /\ clock = 1
  /\ result = NoCall
  /\ updated = {}
  /\ notifier = NewPromptsHandler
  /\ inflight = <<>>
  /\ root \in { NewPromptsService(dir) : dir \in { "missing", "present" } }

\* the mkdir of the constructor is done; an unhandled rejection ends the
\* process
EnsureDirectoryDone ==
  /\ root.ensure = "issued"
  /\ \E made \in BOOLEAN : root' = ensureDirectory(root, made)
  /\ UNCHANGED <<files, clock, result, updated, notifier, inflight>>

\* a create to its await: it throws, or it has built the entity and asks
\* for the write
CreateIssue(P) ==
  /\ root.ensure # "unhandled"
  /\ Len(inflight) < MaxInflight
  /\ \E c \in P.creates, uuid \in P.uuids :
       \E r \in { callTool(files, c.tool, c.args, Env(uuid)) } :
           /\ inflight' = IF r.svc.ok
                          THEN Append(inflight, AwaitingCreate(c.tool, c.args, r.svc.value))
                          ELSE inflight
           /\ result' = IF r.svc.ok THEN result
                        ELSE Returned(c.tool, c.args, r, {})
           /\ UNCHANGED <<files, clock, updated, notifier, root>>

\* the write of a create is done, or it failed: the call returns
CreateWriteDone ==
  /\ root.ensure # "unhandled"
  /\ \E i \in 1..Len(inflight) :
       /\ inflight[i].tool \in CreateTools
       /\ \E r \in { Respond(inflight[i].tool,
                             WriteIn(root, files, SaveNew(files, inflight[i].prompt))) } :
              /\ files' = r.files
              /\ result' = Returned(inflight[i].tool, inflight[i].args, r, {})
              /\ updated' = UpdatedAfter(inflight[i].tool, result')
              /\ inflight' = Resumed(inflight, i)
              /\ UNCHANGED <<clock, notifier, root>>

NextBoot ==
  \/ EnsureDirectoryDone
  \/ CreateIssue(BootPools)
  \/ CreateWriteDone

\* the first calls on a repository just constructed
SpecBoot == InitBoot /\ [][NextBoot]_vars

-----------------------------------------------------------------------------
(* What the claims speak of *)

\* the entities of the store
Stored == { JSONParse(files[p]) : p \in DOMAIN files }

\* the id is in the store
IsStored(fs, id) == PromptPath(id) \in DOMAIN fs

\* the entity stored under the id
StoredAt(fs, id) == JSONParse(fs[PromptPath(id)])

\* an id a caller can name: not empty, not blank
IsId(id) == \E i \in 1..Len(id) : id[i] # " "

\* the step is a call of the tool (the clock moves in no call)
IsCallOf(tools) == result'.tool \in tools /\ clock' = clock

\* the service failed with an error of the class
FailedWith(svc, cls) == ~svc.ok /\ svc.error.cls = cls

\* s[i..j] is a placeholder {{name}}: a name of one or more characters
\* other than braces between the delimiters
IsPlaceholder(s, i, j) ==
  /\ 1 <= i /\ i + 4 <= j /\ j <= Len(s)
  /\ s[i] = "{" /\ s[i + 1] = "{" /\ s[j - 1] = "}" /\ s[j] = "}"
  /\ \A k \in (i + 2)..(j - 2) : s[k] # "{" /\ s[k] # "}"

\* where the braces of s are
BraceIndexes(s) == { k \in 1..Len(s) : s[k] = "{" \/ s[k] = "}" }

HasPlaceholder(s) == \E i, j \in BraceIndexes(s) : IsPlaceholder(s, i, j)

\* the texts of an entity: its content, or the text of each message (the
\* empty text for a message that is not of kind text)
TextsOf(p) ==
  IF "version" \in DOMAIN p
  THEN [ m \in 1..Len(p.messages) |->
           IF p.messages[m].content.type = "text" /\ "text" \in DOMAIN p.messages[m].content
           THEN p.messages[m].content.text ELSE <<>> ]
  ELSE << p.content >>

\* the placeholders of the m-th text s: <<m, first, last>>
PlaceholdersOf(m, s) ==
  { o \in {m} \X BraceIndexes(s) \X BraceIndexes(s) : IsPlaceholder(s, o[2], o[3]) }

\* the placeholders of an entity
Occurrences(p) ==
  UNION { PlaceholdersOf(m, TextsOf(p)[m]) : m \in 1..Len(TextsOf(p)) }

NameAt(p, o) == SubSeq(TextsOf(p)[o[1]], o[2] + 2, o[3] - 2)

Before(o1, o2) == o1[1] < o2[1] \/ (o1[1] = o2[1] /\ o1[2] < o2[2])

\* C1: in every reachable state the variables of every stored entity are the
\* distinct placeholder names of its texts (its content, or the text of its
\* text messages in message order), each once, in the order of their first
\* occurrences.
C1_VariablesAreThePlaceholders ==
  \A p \in Stored :
    LET v == p.variables
        occ == Occurrences(p)
    IN  /\ { v[k] : k \in 1..Len(v) } = { NameAt(p, o) : o \in occ }
        /\ \A k1, k2 \in 1..Len(v) : k1 < k2 =>
             /\ v[k1] # v[k2]
             /\ \E o1 \in occ :
                  /\ NameAt(p, o1) = v[k1]
                  /\ \A o2 \in occ : NameAt(p, o2) = v[k2] => Before(o1, o2)

\* an update has replaced the messages of a stored entity by two messages
\* that repeat a name, and the entity in the store names it once
C1_Witness ==
  /\ result.tool = "update_prompt" /\ result.svc.ok
  /\ "messages" \in DOMAIN result.args /\ result.args.messages = <<MsgAB, MsgB>>
  /\ IsStored(files, result.id)
  /\ StoredAt(files, result.id).variables = << <<"a">>, <<"b">> >>

\* C2: an update with messages on a Single-Content entity returns and
\* stores an entity with the same id and createdAt, the discriminator '2.0'
\* and no content; and in every step an entity of the store that is
\* Multi-Message is Multi-Message after the step, unless its id has left the
\* store.
C2_ConversionOneWay ==
  [][ /\ ( /\ IsCallOf({"update_prompt"}) /\ result'.svc.ok
           /\ "messages" \in DOMAIN result'.args
           /\ "content" \in DOMAIN StoredAt(files, result'.id) )
         => LET old == StoredAt(files, result'.id)
                new == result'.svc.value.prompt
            IN  /\ new.id = old.id /\ new.createdAt = old.createdAt
                /\ "version" \in DOMAIN new /\ new.version = "2.0"
                /\ "content" \notin DOMAIN new
                /\ IsStored(files', result'.id) /\ StoredAt(files', result'.id) = new
      /\ \A path \in DOMAIN files :
           "version" \in DOMAIN JSONParse(files[path])
             => \/ path \notin DOMAIN files'
                \/ "version" \in DOMAIN JSONParse(files'[path])
    ]_vars

\* C3: in every reachable state every Multi-Message entity of the store has
\* at least one message, and each of its messages has a role of user or
\* assistant and a content with text when its kind is text and with image
\* when its kind is image.
C3_StoredMessagesAreValid ==
  \A p \in Stored :
    "version" \in DOMAIN p =>
      /\ Len(p.messages) >= 1
      /\ \A i \in 1..Len(p.messages) :
           LET m == p.messages[i]
           IN  /\ m.role \in {"user", "assistant"}
               /\ "content" \in DOMAIN m
               /\ m.content.type \in {"text", "image"}
               /\ m.content.type = "text" => "text" \in DOMAIN m.content
               /\ m.content.type = "image" => "image" \in DOMAIN m.content

\* C4: whenever the service call behind the facade fails, the caller of the
\* facade gets an error of the class of the failure: code 400 for a
\* ValidationError, code 404 for a NotFoundError, and code 500 only for an
\* error that is neither.
C4_FailuresKeepTheirClass ==
  ~result.svc.ok =>
    /\ ~result.out.ok
    /\ result.svc.error.cls = "mcp-error/ValidationError" => result.out.error.code = 400
    /\ result.svc.error.cls = "mcp-error/NotFoundError" => result.out.error.code = 404
    /\ result.out.error.code = 500
         => result.svc.error.cls \notin { "mcp-error/ValidationError", "mcp-error/NotFoundError" }

\* 'prompt-' and 8 lowercase hexadecimal characters
IsPromptId(id) ==
  /\ Len(id) = 9
  /\ id[1] = "prompt-"
  /\ \A i \in 2..9 : id[i] \in HexDigits

\* C5: every successful add or addMultiMessage gives the new entity an id of
\* the form prompt-xxxxxxxx that was not in the store, leaves every entity
\* that was in the store as it was, and makes the store one entity larger.
C5_CreateAssignsFreshId ==
  [][ (IsCallOf(CreateTools) /\ result'.svc.ok)
        => /\ IsPromptId(result'.svc.value.id)
           /\ ~IsStored(files, result'.svc.value.id)
           /\ \A path \in DOMAIN files : path \in DOMAIN files' /\ files'[path] = files[path]
           /\ Cardinality(DOMAIN files') = Cardinality(DOMAIN files) + 1
    ]_vars

\* the names of the list that are no key of the value map, in their order
NotKeysOf(names, values) == SelectSeq(names, LAMBDA n : n \notin DOMAIN values)

\* C6: apply on an id that is not in the store fails with NotFound; apply on
\* a stored entity fails with Validation whenever a name of its variables is
\* no key of the value map, and the text of the error is 'Missing required
\* variables: ' and those names, in the order of variables, joined by commas.
\* (The failures are those of the repository, and the id is one a caller can
\* name: applyPrompt takes a blank string for no id at all.)
C6_ApplyNamesMissingVariables ==
  (result.tool = "apply_prompt" /\ IsId(result.id)) =>
    IF ~IsStored(files, result.id)
    THEN FailedWith(result.svc, "mcp-error/NotFoundError")
    ELSE LET missing == NotKeysOf(StoredAt(files, result.id).variables, result.args.variables)
         IN  missing # <<>> =>
               /\ FailedWith(result.svc, "mcp-error/ValidationError")
               /\ result.svc.error.message =
                    <<"Missing required variables: ">> \o Join(missing, <<",", " ">>)

\* C7: when the value map has a key for every name of the variables of the
\* stored entity, apply succeeds and what it returns holds no placeholder:
\* neither the text of a Single-Content entity, nor the text of any text
\* message of a Multi-Message one.
C7_ApplyLeavesNoPlaceholder ==
  ( /\ result.tool = "apply_prompt" /\ IsId(result.id) /\ IsStored(files, result.id)
    /\ NotKeysOf(StoredAt(files, result.id).variables, result.args.variables) = <<>> )
  => /\ result.svc.ok
     /\ IF "messages" \in DOMAIN result.svc.value
        THEN \A i \in 1..Len(result.svc.value.messages) :
               LET c == result.svc.value.messages[i].content
               IN  (c.type = "text" /\ "text" \in DOMAIN c) => ~HasPlaceholder(c.text)
        ELSE ~HasPlaceholder(result.svc.value.result)

\* the step is a successful update or delete of the id
ChangesOrRemoves(id) ==
  IsCallOf({"update_prompt", "delete_prompt"}) /\ result'.svc.ok /\ result'.id = id

\* C8: get(id) right after a successful create returns the entity the create
\* returned, and goes on returning it over every step that is no update and
\* no delete of that id.
C8_CreateThenGet ==
  [][ /\ (IsCallOf(CreateTools) /\ result'.svc.ok)
         => getPrompt(files', result'.svc.value.id) = Ok(result'.svc.value)
      /\ \A path \in DOMAIN files :
           LET id == JSONParse(files[path]).id
           IN  ~ChangesOrRemoves(id) => getPrompt(files', id) = getPrompt(files, id)
    ]_vars

\* C9: in every reachable state a stored entity has updatedAt if and only if
\* it was the target of a successful update since it was created.
C9_UpdatedAtIffUpdated ==
  \A p \in Stored : ("updatedAt" \in DOMAIN p) <=> (p.id \in updated)

\* C10: delete of an id that is not in the store fails with NotFound and
\* leaves the store as it was; delete of a stored id returns success and
\* removes that entity and no other; in both cases a get of the id then fails
\* with NotFound.  (The failures are those of the repository, and the id is
\* one a caller can name: deletePrompt takes a blank string for no id at all
\* and answers 'Prompt ID is required'.)
C10_DeleteRemovesExactlyOne ==
  [][ (IsCallOf({"delete_prompt"}) /\ IsId(result'.id))
        => /\ IF IsStored(files, result'.id)
              THEN /\ result'.svc.ok /\ result'.svc.value.success
                   /\ DOMAIN files' = DOMAIN files \ { PromptPath(result'.id) }
                   /\ \A path \in DOMAIN files' : files'[path] = files[path]
              ELSE /\ FailedWith(result'.svc, "mcp-error/NotFoundError")
                   /\ files' = files
           /\ FailedWith(getPrompt(files', result'.id), "mcp-error/NotFoundError")
    ]_vars

\* a delete has removed one of two stored entities
C10_Witness ==
  /\ result.tool = "delete_prompt" /\ result.svc.ok
  /\ ~IsStored(files, result.id)
  /\ DOMAIN files # {}


\* the optional fields of update the call supplies
Supplied(args) == DOMAIN args \cap { "name", "description", "messages" }

\* the service refused the update for lack of fields
RefusedForLackOfFields(svc) ==
  /\ FailedWith(svc, "mcp-error/ValidationError")
  /\ svc.error.message = <<"At least one field to update must be provided">>

\* C11: an update (of an id a caller can name) fails with Validation exactly
\* when the call supplies none of name, description and messages, and then
\* the store is as it was; a call that supplies one of the three, whatever
\* its value, is not refused for lack of fields.
C11_UpdateNeedsOneField ==
  [][ (IsCallOf({"update_prompt"}) /\ IsId(result'.id))
        => /\ FailedWith(result'.svc, "mcp-error/ValidationError")
                <=> Supplied(result'.args) = {}
           /\ Supplied(result'.args) = {}
                => (RefusedForLackOfFields(result'.svc) /\ files' = files)
           /\ Supplied(result'.args) # {} => ~RefusedForLackOfFields(result'.svc)
    ]_vars


\* the string is empty or blank after trimming
IsBlankString(s) == \A i \in 1..Len(s) : s[i] = " "

\* the field is absent, or empty or blank after trimming
AbsentOrBlank(args, key) == key \notin DOMAIN args \/ IsBlankString(args[key])

\* the shape of a message: a role of user or assistant, and a content that
\* carries text when its kind is text and image when its kind is image
HasShape(m) ==
  /\ "role" \in DOMAIN m /\ m.role \in {"user", "assistant"}
  /\ "content" \in DOMAIN m /\ "type" \in DOMAIN m.content
  /\ m.content.type \in {"text", "image"}
  /\ m.content.type = "text" => "text" \in DOMAIN m.content
  /\ m.content.type = "image" => "image" \in DOMAIN m.content

\* the create call misses a precondition
MissesPrecondition(tool, args) ==
  IF tool = "add_prompt"
  THEN AbsentOrBlank(args, "name") \/ AbsentOrBlank(args, "content")
  ELSE \/ AbsentOrBlank(args, "name")
       \/ "messages" \notin DOMAIN args
       \/ args.messages = <<>>
       \/ \E i \in 1..Len(args.messages) : ~HasShape(args.messages[i])

\* C12: a create call that misses a precondition (add: a name or a content
\* that is empty or blank; addMultiMessage: a blank name, no message, or a
\* message of an invalid shape) fails with Validation and leaves the store
\* as it was.
C12_InvalidCreatePersistsNothing ==
  [][ (IsCallOf(CreateTools) /\ MissesPrecondition(result'.tool, result'.args))
        => /\ FailedWith(result'.svc, "mcp-error/ValidationError")
           /\ files' = files
    ]_vars

\* addMultiMessage was refused for its last message, a text content without
\* text, with an entity in the store
C12_Witness ==
  /\ result.tool = "add_multi_message_prompt"
  /\ "name" \in DOMAIN result.args /\ result.args.name = PaddedName
  /\ "messages" \in DOMAIN result.args /\ result.args.messages = <<MsgB, MsgTextNoText>>
  /\ FailedWith(result.svc, "mcp-error/ValidationError")
  /\ DOMAIN files # {}


\* the blobs list can read: the .json files that hold a JSON text
Readable(fs) == { p \in DOMAIN fs : EndsWithJson(p) /\ IsJSONText(fs[p]) }

\* the .json files list cannot parse
Unreadable(fs) == { p \in DOMAIN fs : EndsWithJson(p) /\ ~IsJSONText(fs[p]) }

\* C17: list succeeds, and what it returns is exactly the entities of the
\* blobs that can be read, one for each: every blob that cannot be read or
\* parsed is skipped, however many there are and wherever they come.
C17_ListSkipsUnreadable ==
  [][ IsCallOf({"list_prompts"})
        => /\ result'.svc.ok
           /\ Len(result'.svc.value) = Cardinality(Readable(files))
           /\ { result'.svc.value[i] : i \in 1..Len(result'.svc.value) }
                = { JSONParse(files[p]) : p \in Readable(files) }
    ]_vars

\* list has returned the one entity of a directory that holds it and an
\* unreadable blob
C17_Witness ==
  /\ result.tool = "list_prompts" /\ result.svc.ok
  /\ Len(result.svc.value) = 1
  /\ Unreadable(files) # {}
  /\ Readable(files) # {}

\* the read paths: the tools get, list and apply, and prompts/list and
\* prompts/get of the handler
ReadPaths == { "get_prompt", "list_prompts", "apply_prompt", "prompts/list", "prompts/get" }

\* C18: a call of a read path, whether it succeeds or fails, leaves the
\* store as it was: the same files with the same texts.
C18_ReadPathsLeaveTheStore ==
  [][ IsCallOf(ReadPaths) => files' = files ]_vars

\* prompts/get has failed on a directory that holds an entity and an
\* unreadable blob
C18_Witness ==
  /\ result.tool = "prompts/get" /\ ~result.out.ok
  /\ Unreadable(files) # {}
  /\ Readable(files) # {}


\* the subscriptions that observe the prompts directory
ActiveSubscriptions ==
  { i \in 1..Len(notifier.subs) : notifier.subs[i].handle = "open" }

\* the notification calls made by the loop of subscription i
SentBy(i) == { k \in 1..Len(notifier.sent) : notifier.sent[k].by = i }

\* C13: in every reachable state at most one subscription is active, and no
\* storage event is notified twice (by two watch loops).
C13_AtMostOneSubscription ==
  /\ Cardinality(ActiveSubscriptions) <= 1
  /\ \A k1, k2 \in 1..Len(notifier.sent) :
       k1 # k2 => notifier.sent[k1].seq # notifier.sent[k2].seq

\* a second start has closed the first subscription, and the loop of each
\* has sent a notification
C13_Witness ==
  /\ Len(notifier.subs) = 2
  /\ notifier.subs[1].handle = "closed"
  /\ notifier.subs[2].handle = "open"
  /\ SentBy(1) # {} /\ SentBy(2) # {}

\* C14: while a subscription is active, each event it has observed is in
\* its queue or has produced one notification call of its loop, and each
\* call is a 'notifications/prompts/list_changed': N events, N notifications.
C14_OneNotificationPerEvent ==
  /\ \A i \in ActiveSubscriptions :
       notifier.subs[i].seen = Cardinality(SentBy(i)) + Len(notifier.subs[i].queue)
  /\ \A k \in 1..Len(notifier.sent) :
       notifier.sent[k].method = "notifications/prompts/list_changed"

\* an active subscription has observed a change and a rename and its loop
\* has sent two notifications
C14_Witness ==
  \E i \in ActiveSubscriptions :
    /\ notifier.subs[i].seen = 2 /\ notifier.subs[i].queue = <<>>
    /\ Cardinality(SentBy(i)) = 2
    /\ { notifier.mutations[notifier.sent[k].seq].eventType : k \in SentBy(i) } = EventTypes

\* the step is a call of dispose: the controller is null after it, and no
\* event, no notification and no loop has moved
IsDispose ==
  /\ notifier'.abortController = 0
  /\ notifier'.mutations = notifier.mutations
  /\ notifier'.sent = notifier.sent
  /\ Len(notifier'.subs) = Len(notifier.subs)
  /\ \A i \in 1..Len(notifier.subs) :
       /\ notifier'.subs[i].loop = notifier.subs[i].loop
       /\ notifier'.subs[i].queue = notifier.subs[i].queue

\* C15: dispose leaves the notifier Idle (no controller, no watcher, no
\* active subscription); a dispose while Idle changes nothing; and no
\* notification is ever sent for a storage mutation that happened while the
\* notifier was Idle.
C15_StopIsIdempotentAndFinal ==
  /\ [][ IsDispose
           => /\ notifier'.fileWatcher = 0
              /\ \A i \in 1..Len(notifier'.subs) : notifier'.subs[i].handle # "open"
              /\ notifier.abortController = 0 => notifier' = notifier
       ]_vars
  /\ [] ( \A k \in 1..Len(notifier.sent) :
            ~notifier.mutations[notifier.sent[k].seq].idle )

\* the notifier is Idle after a stop, a notification was sent before it and
\* the directory has changed since
C15_Witness ==
  /\ notifier.abortController = 0
  /\ notifier.sent # <<>>
  /\ notifier.mutations # <<>>
  /\ notifier.mutations[Len(notifier.mutations)].idle
  /\ \A i \in 1..Len(notifier.subs) : notifier.subs[i].loop = "ended"

\* C16: when a call of setupFileWatcher that has established its watch
\* returns, that watch is still active.
C16_StartReturnsWhileWatching ==
  [][ \A i \in 1..Len(notifier.subs) :
        ( /\ Len(notifier'.subs) = Len(notifier.subs)
          /\ notifier.subs[i].handle # "failed"
          /\ notifier.subs[i].loop = "awaiting"
          /\ notifier'.subs[i].loop = "ended" )
        => notifier'.subs[i].handle = "open"
    ]_vars


\* a call that has read and not yet written or unlinked
InFlight == Len(inflight) >= 1

\* C19: the facade processes one call at a time to completion: while a
\* call is between its storage read and its storage write or unlink, no
\* other add, update or delete call reads or writes the store
C19_OneCallAtATime ==
  [][ InFlight =>
        /\ Len(inflight') <= Len(inflight)
        /\ (files' # files => Len(inflight') < Len(inflight))
    ]_vars

\* the step is the write of an update_prompt that other updates of the same
\* id overtook while it was in flight
IsRacedWrite ==
  /\ Len(inflight') < Len(inflight)
  /\ result'.tool = "update_prompt"
  /\ result'.svc.ok
  /\ result'.raced # {}

\* C20: when updates of one id interleave, the entity stored under the id
\* after a write is the whole entity of the call whose write it was, the
\* last one, and never a merge with what the other call wrote; the
\* entities of the other ids stay as they were
C20_LastWriteWins ==
  [][ IsRacedWrite =>
        /\ IsStored(files', result'.id)
        /\ StoredAt(files', result'.id) = result'.svc.value.prompt
        /\ \A p \in (DOMAIN files \cup DOMAIN files') \ { PromptPath(result'.id) } :
             p \in DOMAIN files /\ p \in DOMAIN files' /\ files'[p] = files[p]
    ]_vars

\* two updates of one id interleaved: the one that wrote last changed the
\* messages, the one it overtook had changed the name, another id is in the
\* store, and the stored entity has the name the last one read
C20_Witness ==
  /\ result.tool = "update_prompt"
  /\ result.svc.ok
  /\ \E other \in result.raced :
       /\ other.name # result.svc.value.prompt.name
       /\ "content" \in DOMAIN other
       /\ "content" \notin DOMAIN result.svc.value.prompt
  /\ IsStored(files, result.id)
  /\ StoredAt(files, result.id) = result.svc.value.prompt
  /\ \E id \in ConcurrentPools.ids : id # result.id /\ IsStored(files, id)


\* the elements of a list
Elements(list) == { list[i] : i \in 1..Len(list) }

\* the value map has values for some names of the text, and not for all
CoversStrictSubset(variables, text) ==
  /\ DOMAIN variables \subseteq Elements(extractVariables(text))
  /\ DOMAIN variables # Elements(extractVariables(text))

\* C21: when the value map covers only a strict subset of the names of a
\* text, the names of the substituted text are names of the text, and every
\* name without a value is still a name of the substituted text
C21_SubstitutionAddsNoName ==
  ( /\ result.tool = "replaceVariables"
    /\ CoversStrictSubset(result.args.variables, result.args.text) )
  => /\ Elements(extractVariables(result.svc.value))
          \subseteq Elements(extractVariables(result.args.text))
     /\ \A name \in Elements(extractVariables(result.args.text)) :
          name \notin DOMAIN result.args.variables
            => name \in Elements(extractVariables(result.svc.value))


\* the kind-specific field of the content is a string: `text` of a text
\* content, `image` of an image content
HasKindField(content) ==
  /\ "type" \in DOMAIN content
  /\ content.type \in {"text", "image"}
  /\ content.type = "text" => IsString(content, "text")
  /\ content.type = "image" => IsString(content, "image")

\* a message with a role of user or assistant and such a content
WellFormed(message) ==
  /\ "role" \in DOMAIN message /\ message.role \in {"user", "assistant"}
  /\ "content" \in DOMAIN message /\ HasKindField(message.content)

\* C22: validateMessages is true if and only if the list is not empty and
\* every message has a role of user or assistant and a content of kind text
\* with a string text or of kind image with a string image
C22_ValidateMessagesIff ==
  result.tool = "validateMessages"
    => ( result.svc.value
           <=> /\ Len(result.args.messages) > 0
               /\ \A i \in 1..Len(result.args.messages) :
                    WellFormed(result.args.messages[i]) )

\* a list that ends with an image whose image is no string is refused
C22_Witness ==
  /\ result.tool = "validateMessages"
  /\ result.args.messages = << MsgB, MsgImageObject >>
  /\ result.svc.value = FALSE


\* the fields an update without messages may set
PatchedFields == { "name", "description", "updatedAt" }

\* the entity after the update is the entity before it but for the fields
\* the arguments supply, and for updatedAt
PatchedOnly(old, new, args) ==
  /\ \A k \in DOMAIN old \ PatchedFields : k \in DOMAIN new /\ new[k] = old[k]
  /\ DOMAIN new \ DOMAIN old \subseteq { "updatedAt", "description" }
  /\ new.name # old.name => "name" \in DOMAIN args
  /\ "description" \in DOMAIN new
       => \/ "description" \in DOMAIN args
          \/ "description" \in DOMAIN old /\ new.description = old.description
  /\ isMultiMessagePrompt(new) <=> isMultiMessagePrompt(old)
  /\ isSingleContentPrompt(new) <=> isSingleContentPrompt(old)

\* the files other than the one of the id are as they were
OthersUntouched(id) ==
  /\ DOMAIN files' \ { PromptPath(id) } = DOMAIN files \ { PromptPath(id) }
  /\ \A p \in DOMAIN files \ { PromptPath(id) } : files'[p] = files[p]

\* C23: a successful update without messages keeps the variant of the
\* entity and changes its name and description only when they are supplied,
\* and updatedAt; id, createdAt, variables, and content or messages and
\* discriminator stay, and no other entity is touched
C23_UpdateWithoutMessagesIsAPatch ==
  [][ ( /\ IsCallOf({"update_prompt"})
        /\ result'.svc.ok
        /\ "messages" \notin DOMAIN result'.args )
      => /\ IsStored(files, result'.id)
         /\ IsStored(files', result'.id)
         /\ PatchedOnly(StoredAt(files, result'.id), StoredAt(files', result'.id),
                        result'.args)
         /\ OthersUntouched(result'.id)
    ]_vars

\* a Multi-Message entity after an update that gave it a name and no
\* messages, with another entity in the store
C23_Witness ==
  /\ result.tool = "update_prompt"
  /\ result.svc.ok
  /\ DOMAIN result.args = { "id", "name" }
  /\ IsStored(files, result.id)
  /\ isMultiMessagePrompt(StoredAt(files, result.id))
  /\ StoredAt(files, result.id).messages = << MsgB, MsgImage >>
  /\ \E p \in DOMAIN files : p # PromptPath(result.id)


\* the message as apply returns it: an image as it is stored, a text with
\* the values set into its text and nothing else changed
Substituted(message, variables) ==
  IF message.content.type = "text" /\ "text" \in DOMAIN message.content
  THEN [ message EXCEPT !.content.text = replaceVariables(@, variables) ]
  ELSE message

\* C24: a successful apply on a Multi-Message entity returns as many
\* messages as are stored, in their order and with their roles, an image
\* message as it is stored and a text message with only its text
\* substituted, and a result that is the serialized rendering of that list;
\* on a Single-Content entity it returns the substituted text and no list
C24_ApplyKeepsTheMessageList ==
  (result.tool = "apply_prompt" /\ result.svc.ok)
    => IF isMultiMessagePrompt(StoredAt(files, result.id))
       THEN /\ DOMAIN result.svc.value = { "result", "messages" }
            /\ Len(result.svc.value.messages) = Len(StoredAt(files, result.id).messages)
            /\ \A i \in 1..Len(result.svc.value.messages) :
                 /\ result.svc.value.messages[i].role
                      = StoredAt(files, result.id).messages[i].role
                 /\ result.svc.value.messages[i]
                      = Substituted(StoredAt(files, result.id).messages[i],
                                    result.args.variables)
            /\ result.svc.value.result = JSONStringifyList(result.svc.value.messages)
       ELSE /\ DOMAIN result.svc.value = { "result" }
            /\ result.svc.value.result
                 = replaceVariables(StoredAt(files, result.id).content,
                                    result.args.variables)

\* an apply on a stored text message and image message, with values that
\* change the text
C24_Witness ==
  /\ result.tool = "apply_prompt"
  /\ result.svc.ok
  /\ IsStored(files, result.id)
  /\ isMultiMessagePrompt(StoredAt(files, result.id))
  /\ StoredAt(files, result.id).messages = << MsgB, MsgImage >>
  /\ result.svc.value.messages[1].content.text = <<"B">>
  /\ result.svc.value.messages[2] = MsgImage


\* C25: a deleted entity is not resurrected: whatever update of the id is
\* in flight, once the delete has returned success the store has no blob
\* for the id until a create assigns the id again.  A blob leaves the store
\* only with a delete that succeeds, so: a blob comes into the store under
\* an id only in a create that returns that id
C25_DeletedStaysDeleted ==
  [][ \A id \in ConcurrentPools.ids :
        (~IsStored(files, id) /\ IsStored(files', id))
          => /\ result'.tool \in CreateTools
             /\ result'.svc.ok
             /\ result'.id = id
    ]_vars


\* C26: an update that supplies at least one of name, description and
\* messages, on an id that is not in the store, fails with NotFound, and the
\* store is as it was: no blob is made for the id
C26_UpdateOfMissingIsNotFound ==
  [][ ( /\ IsCallOf({"update_prompt"})
        /\ IsId(result'.id)
        /\ Supplied(result'.args) # {}
        /\ ~IsStored(files, result'.id) )
      => /\ FailedWith(result'.svc, "mcp-error/NotFoundError")
         /\ files' = files
    ]_vars


\* C27: wherever a blob is stored under the id, readable or not, delete
\* removes it and returns success; delete fails, with NotFound, only when
\* no blob is stored under the id
C27_DeleteRemovesAnyBlob ==
  [][ (IsCallOf({"delete_prompt"}) /\ IsId(result'.id))
      => /\ IsStored(files, result'.id)
              => (result'.svc.ok /\ ~IsStored(files', result'.id))
         /\ ~IsStored(files, result'.id)
              => FailedWith(result'.svc, "mcp-error/NotFoundError")
    ]_vars


\* C28: every element list() returns satisfies isValidPromptStructure, and
\* the listing of prompts/list, which maps over the variables of each
\* element, does not fail
C28_ListedAreValid ==
  /\ (result.tool = "list_prompts" /\ result.svc.ok)
       => \A i \in 1..Len(result.svc.value) : isValidPromptStructure(result.svc.value[i])
  /\ result.tool = "prompts/list" => result.out.ok


\* C29: the root directory has been ensured before the write of a create
\* is issued, also for a call made right after the construction, and a
\* failure to ensure it is no rejection that nobody observes
C29_DirectoryEnsuredBeforeWrites ==
  [][ /\ Len(inflight') > Len(inflight) => root.ensure = "done"
      /\ root'.ensure # "unhandled"
    ]_vars


\* C30: of every entity in the store after any sequence of add,
\* addMultiMessage, update and delete calls exactly one type guard holds:
\* isMultiMessagePrompt if and only if not isSingleContentPrompt
C30_ExactlyOneVariant ==
  \A p \in DOMAIN files :
    isMultiMessagePrompt(JSONParse(files[p])) <=> ~isSingleContentPrompt(JSONParse(files[p]))

\* an update with messages has just stored a Multi-Message entity, with an
\* updatedAt and no content, next to a Single-Content entity
C30_Witness ==
  /\ result.tool = "update_prompt"
  /\ result.svc.ok
  /\ "messages" \in DOMAIN result.args
  /\ IsStored(files, result.id)
  /\ isMultiMessagePrompt(StoredAt(files, result.id))
  /\ ~isSingleContentPrompt(StoredAt(files, result.id))
  /\ "updatedAt" \in DOMAIN StoredAt(files, result.id)
  /\ \E p \in DOMAIN files : isSingleContentPrompt(JSONParse(files[p]))

====
